---- MODULE Spec2Model ----
(***************************************************************************)
(* Booking / reservation core of the detailing web site.                   *)
(*                                                                         *)
(* Time is counted in whole hours since a Monday 00:00.  `now` is the UTC  *)
(* clock (datetime.utcnow()); the server's local clock (datetime.now())    *)
(* is now + utcOffset.  A booking's start is the naive timestamp typed by  *)
(* the customer.                                                           *)
(*                                                                         *)
(* A client is one browser with its own Flask session; it issues one HTTP  *)
(* request at a time.  The POST /booking handler is split at the points    *)
(* where it reads or commits the shared booking table (validate, insert +  *)
(* commit, gateway call + outcome), so that requests of different clients  *)
(* interleave there.  The two callbacks are single short units of work.    *)
(***************************************************************************)
EXTENDS Integers, FiniteSets, Sequences, TLC

\* ------------------------------------------------------------ bounds
MaxBookings == 2

\* ------------------------------------------------- program constants
LeadHours == 24
OpenHour == 5
CloseHour == 18
ServiceHours == 2
RateLimitDays == 7
HoursPerDay == 24
NoId == 0

\* ----------------------------------------------------- input domains
Clients == {1, 2}
Emails == {"a@x", "b@x"}
Starts == {34, 35, 36, 42}
Instants == {0, 203}
UtcOffsets == {0}
ProductIdInputs == {1, 2, 3}
AdminTargets == {1}
Intents == {"none", "pi_A"}
GatewayOutcomes == {"ok", "stripe_error", "no_api_key"}

IdArgs == 0..MaxBookings

\* The logged-in user of each client (0: anonymous).  Only the admin
\* account can log in.
AdminUserId == 1
UserOf(c) == IF c = 1 THEN AdminUserId ELSE NoId

VARIABLES now, utcOffset, products, bookings, nextId, pc, req, bid,
          session, checkouts, response

vars == <<now, utcOffset, products, bookings, nextId, pc, req, bid,
          session, checkouts, response>>

\* ------------------------------------------------------------ models
ActiveStatuses == {"pending", "confirmed"}

NoReq == [product_id |-> 0, email |-> "", start |-> 0, fieldsOk |-> TRUE]

\* What the latest step did towards the outside: the handler, the flashed
\* message or redirect, whether the payment gateway was called, and the
\* outcome of each e-mail sent (client, owner).  The form errors shown with
\* "form_errors" are FormErrors of the request.
Resp(op, msg, gateway, mailed) ==
    [op |-> op, msg |-> msg, gateway |-> gateway, mailed |-> mailed]

NoResponse == Resp("none", "none", "not_called", <<>>)

SeedProducts ==
    { [id |-> 1, status |-> "active", price |-> 7500, stripe_price_id |-> ""],
      [id |-> 2, status |-> "coming_soon", price |-> 29900, stripe_price_id |-> ""] }

LocalNow == now + utcOffset

HourOf(t) == t % HoursPerDay

RowsWithId(bks, id) == {b \in bks : b.id = id}

\* check_availability without its second clause (an existing booking that
\* starts inside the candidate slot and ends after it).
CheckAvailabilityStartOnly(bks, start_time, end_time, exclude_booking_id) ==
    ~ \E b \in bks :
        /\ b.status \in ActiveStatuses
        /\ \/ (b.start <= start_time /\ b.end > start_time)
           \/ (b.start >= start_time /\ b.end <= end_time)
        /\ (exclude_booking_id # NoId => b.id # exclude_booking_id)

\* check_availability with a closed comparison in its first clause: an
\* existing booking that ends when the candidate starts counts as a conflict.
CheckAvailabilityClosed(bks, start_time, end_time, exclude_booking_id) ==
    ~ \E b \in bks :
        /\ b.status \in ActiveStatuses
        /\ \/ (b.start <= start_time /\ b.end >= start_time)
           \/ (b.start < end_time /\ b.end >= end_time)
           \/ (b.start >= start_time /\ b.end <= end_time)
        /\ (exclude_booking_id # NoId => b.id # exclude_booking_id)

\* Booking.check_availability: TRUE when no active booking matches one of the
\* three overlap clauses.
CheckAvailability(bks, start_time, end_time, exclude_booking_id) ==
    ~ \E b \in bks :
        /\ b.status \in ActiveStatuses
        /\ \/ (b.start <= start_time /\ b.end > start_time)
           \/ (b.start < end_time /\ b.end >= end_time)
           \/ (b.start >= start_time /\ b.end <= end_time)
        /\ (exclude_booking_id # NoId => b.id # exclude_booking_id)

\* validate_start with the business-hours rule ahead of the lead-time rule.
ValidateStartHoursFirst(bks, localNow, start) ==
    IF HourOf(start) < OpenHour \/ HourOf(start) >= CloseHour
    THEN {"outside_hours"}
    ELSE IF start < localNow + LeadHours THEN {"too_soon"}
    ELSE IF ~ CheckAvailability(bks, start, start + ServiceHours, NoId)
         THEN {"slot_taken"}
    ELSE {}

\* validate_start holding the end of the service to the closing hour too.
ValidateStartEndInHours(bks, localNow, start) ==
    IF start < localNow + LeadHours THEN {"too_soon"}
    ELSE IF \/ HourOf(start) < OpenHour
            \/ HourOf(start) >= CloseHour
            \/ HourOf(start) + ServiceHours > CloseHour
         THEN {"outside_hours"}
    ELSE IF ~ CheckAvailability(bks, start, start + ServiceHours, NoId)
         THEN {"slot_taken"}
    ELSE {}

\* BookingForm.validate_start: the first failing rule raises.
ValidateStart(bks, localNow, start) ==
    IF start < localNow + LeadHours THEN {"too_soon"}
    ELSE IF HourOf(start) < OpenHour \/ HourOf(start) >= CloseHour
         THEN {"outside_hours"}
    ELSE IF ~ CheckAvailability(bks, start, start + ServiceHours, NoId)
         THEN {"slot_taken"}
    ELSE {}

\* A rate limit that counts only paid bookings.
ValidateEmailConfirmedOnly(bks, utcNow, email) ==
    IF \E b \in bks :
          /\ b.email = email
          /\ b.start >= utcNow - RateLimitDays * HoursPerDay
          /\ b.status = "confirmed"
    THEN {"rate_limit"}
    ELSE {}

\* A rate limit whose window is measured from the day the booking was made.
ValidateEmailByCreation(bks, utcNow, email) ==
    IF \E b \in bks :
          /\ b.email = email
          /\ b.created_at >= utcNow - RateLimitDays * HoursPerDay
          /\ b.status \in ActiveStatuses
    THEN {"rate_limit"}
    ELSE {}

\* BookingForm.validate_email: the 7-day rule on the booking's start.
ValidateEmail(bks, utcNow, email) ==
    IF \E b \in bks :
          /\ b.email = email
          /\ b.start >= utcNow - RateLimitDays * HoursPerDay
          /\ b.status \in ActiveStatuses
    THEN {"rate_limit"}
    ELSE {}

\* BookingForm.__init__: the select field's choices are the ACTIVE products;
\* a submitted id outside the choices is not a valid choice.
ProductChoices(prods) == {p.id : p \in {q \in prods : q.status = "active"}}

ValidateProduct(prods, product_id) ==
    IF product_id \in ProductChoices(prods) THEN {} ELSE {"invalid_choice"}

\* form.validate(): every field is validated, the errors are collected.
FormErrors(bks, prods, utcNow, localNow, r) ==
    (IF r.fieldsOk THEN {} ELSE {"invalid_field"})
        \cup ValidateProduct(prods, r.product_id)
        \cup ValidateEmail(bks, utcNow, r.email)
        \cup ValidateStart(bks, localNow, r.start)

\* int(float(product.price) * 100), with the price held in cents: float(price)
\* is the double nearest to cents/100, the product is rounded to a double
\* again and int() truncates.  With i = floor(log2(cents/100)) the first
\* rounding leaves 100 * float(price) = cents + delta / 2^(52-i), where
\* rem = cents * 2^(52-i) mod 100 and delta = -rem (rem < 50) or 100 - rem;
\* the second rounding lands below cents exactly when the ulp of cents is
\* 2^6 times that of cents/100 and 32 < rem < 50, and int() then gives
\* cents - 1.
RECURSIVE Log2Floor(_)
Log2Floor(n) == IF n < 2 THEN 0 ELSE 1 + Log2Floor(n \div 2)

RECURSIVE Pow2(_)
Pow2(n) == IF n <= 0 THEN 1 ELSE 2 * Pow2(n - 1)

RECURSIVE DoubleMod100(_, _)
DoubleMod100(r, k) == IF k <= 0 THEN r % 100 ELSE DoubleMod100((2 * r) % 100, k - 1)

\* floor(log2(cents / 100)) for cents >= 1 (negative below one dollar).
RECURSIVE ScaleUp(_, _)
ScaleUp(n, i) == IF n >= 100 THEN i ELSE ScaleUp(2 * n, i - 1)

DollarExp(cents) ==
    IF cents >= 100 THEN Log2Floor(cents \div 100) ELSE ScaleUp(cents, 0)

UnitAmount(cents) ==
    IF cents = 0 THEN 0
    ELSE LET i == DollarExp(cents)
             j == Log2Floor(cents)
             rem == DoubleMod100(cents % 100, 52 - i)
         IN  IF j - i = 6 /\ rem > 32 /\ rem < 50 THEN cents - 1 ELSE cents

\* create_stripe_checkout_session: the line item sent to the gateway.
LineItem(product) ==
    IF product.stripe_price_id # ""
    THEN [kind |-> "price", price |-> product.stripe_price_id,
          currency |-> "", unit_amount |-> 0, quantity |-> 1]
    ELSE [kind |-> "price_data", price |-> "",
          currency |-> "usd", unit_amount |-> UnitAmount(product.price),
          quantity |-> 1]

Init ==
    /\ now = 0
    /\ utcOffset \in UtcOffsets
    /\ products = SeedProducts
    /\ bookings = {}
    /\ nextId = 1
    /\ pc = [c \in Clients |-> "idle"]
    /\ req = [c \in Clients |-> NoReq]
    /\ bid = [c \in Clients |-> NoId]
    /\ session = [c \in Clients |-> NoId]
    /\ checkouts = {}
    /\ response = NoResponse

\* ------------------------------------------------ POST /booking
\* A handler that reserves the slot before it validates and does not roll
\* the reservation back when validation fails.
SubmitReservesFirst(c, r) ==
    /\ pc[c] = "idle"
    /\ LET errs == FormErrors(bookings, products, now, LocalNow, r)
       IN  IF errs = {}
           THEN /\ pc' = [pc EXCEPT ![c] = "validated"]
                /\ req' = [req EXCEPT ![c] = r]
                /\ response' = NoResponse
                /\ UNCHANGED <<bookings, nextId>>
           ELSE /\ response' = Resp("booking", "form_errors", "not_called", <<>>)
                /\ bookings' = bookings \cup
                       { [id |-> nextId, user_id |-> UserOf(c),
                          product_id |-> r.product_id, email |-> r.email,
                          start |-> r.start, end |-> r.start + ServiceHours,
                          status |-> "pending", stripe_payment_id |-> "null",
                          created_at |-> now] }
                /\ nextId' = nextId + 1
                /\ UNCHANGED <<pc, req>>
    /\ UNCHANGED <<now, utcOffset, products, bid, session, checkouts>>

\* form = BookingForm(); form.validate_on_submit()
Submit(c, r) ==
    /\ pc[c] = "idle"
    /\ LET errs == FormErrors(bookings, products, now, LocalNow, r)
       IN  IF errs = {}
           THEN /\ pc' = [pc EXCEPT ![c] = "validated"]
                /\ req' = [req EXCEPT ![c] = r]
                /\ response' = NoResponse
           ELSE /\ response' = Resp("booking", "form_errors", "not_called", <<>>)
                /\ UNCHANGED <<pc, req>>
    /\ UNCHANGED <<now, utcOffset, products, bookings, nextId, bid,
                   session, checkouts>>

\* A handler that looks the slot up again before it inserts.
ProductFoundAndSlotFree(c) ==
    /\ \E p \in products : p.id = req[c].product_id
    /\ CheckAvailability(bookings, req[c].start, req[c].start + ServiceHours, NoId)

\* product = Product.query.get(form.product_id.data); if not product: ...
ProductFound(c) == \E p \in products : p.id = req[c].product_id

\* An insert that never attaches the logged-in user to the booking.
InsertAnonymous(c) ==
    /\ pc[c] = "validated"
    /\ IF ProductFound(c)
       THEN /\ nextId <= MaxBookings
            /\ bookings' = bookings \cup
                   { [id |-> nextId,
                      user_id |-> NoId,
                      product_id |-> req[c].product_id,
                      email |-> req[c].email,
                      start |-> req[c].start,
                      end |-> req[c].start + ServiceHours,
                      status |-> "pending",
                      stripe_payment_id |-> "null",
                      created_at |-> now] }
            /\ bid' = [bid EXCEPT ![c] = nextId]
            /\ nextId' = nextId + 1
            /\ pc' = [pc EXCEPT ![c] = "inserted"]
            /\ response' = NoResponse
            /\ UNCHANGED req
       ELSE /\ response' = Resp("booking", "invalid_service", "not_called", <<>>)
            /\ pc' = [pc EXCEPT ![c] = "idle"]
            /\ req' = [req EXCEPT ![c] = NoReq]
            /\ UNCHANGED <<bookings, bid, nextId>>
    /\ UNCHANGED <<now, utcOffset, products, session, checkouts>>

\* An end time left equal to the start time.
EndTimeUnset(start_time) == start_time

\* end_time = form.start.data + timedelta(hours=2)
EndTime(start_time) == start_time + ServiceHours

\* Product.query.get(...), Booking(...), db.session.add, db.session.commit
Insert(c) ==
    /\ pc[c] = "validated"
    /\ IF ProductFound(c)
       THEN /\ nextId <= MaxBookings
            /\ bookings' = bookings \cup
                   { [id |-> nextId,
                      user_id |-> UserOf(c),
                      product_id |-> req[c].product_id,
                      email |-> req[c].email,
                      start |-> req[c].start,
                      end |-> EndTime(req[c].start),
                      status |-> "pending",
                      stripe_payment_id |-> "null",
                      created_at |-> now] }
            /\ bid' = [bid EXCEPT ![c] = nextId]
            /\ nextId' = nextId + 1
            /\ pc' = [pc EXCEPT ![c] = "inserted"]
            /\ response' = NoResponse
            /\ UNCHANGED req
       ELSE /\ response' = Resp("booking", "invalid_service", "not_called", <<>>)
            /\ pc' = [pc EXCEPT ![c] = "idle"]
            /\ req' = [req EXCEPT ![c] = NoReq]
            /\ UNCHANGED <<bookings, bid, nextId>>
    /\ UNCHANGED <<now, utcOffset, products, session, checkouts>>

\* A failure branch that flashes the message and forgets the delete.
CompensatingDeleteSkipped(bks, id) == bks

\* db.session.delete(booking); db.session.commit() after a failed checkout:
\* the DELETE is by primary key, whatever the row has become meanwhile.
AfterCompensatingDelete(bks, id) == bks \ RowsWithId(bks, id)

\* create_stripe_checkout_session(product, success_url, cancel_url) and the
\* branch on its result.  Without an API key Stripe is not called; the call
\* fails when the product row can no longer be read or Stripe refuses it.
\* checkouts holds the sessions Stripe created, by the booking id of their
\* callback URLs.
Checkout(c, outcome) ==
    /\ pc[c] = "inserted"
    /\ LET ps == {p \in products : p.id = req[c].product_id}
           created == outcome = "ok" /\ ps # {}
           gateway == IF outcome = "no_api_key" THEN "not_called"
                      ELSE IF created THEN "created" ELSE "failed"
       IN  IF created
           THEN /\ checkouts' = checkouts \cup
                      { [booking_id |-> bid[c],
                         line_item |-> LineItem(CHOOSE p \in ps : TRUE)] }
                /\ session' = [session EXCEPT ![c] = bid[c]]
                /\ response' = Resp("booking", "redirect_checkout", gateway, <<>>)
                /\ UNCHANGED bookings
           ELSE /\ response' = Resp("booking", "payment_unavailable", gateway, <<>>)
                /\ bookings' = AfterCompensatingDelete(bookings, bid[c])
                /\ UNCHANGED <<session, checkouts>>
    /\ pc' = [pc EXCEPT ![c] = "idle"]
    /\ req' = [req EXCEPT ![c] = NoReq]
    /\ bid' = [bid EXCEPT ![c] = NoId]
    /\ UNCHANGED <<now, utcOffset, products, nextId>>

\* ------------------------------------------------ callbacks
\* An id resolution that reads the session before the request parameter.
ResolveIdSessionFirst(c, arg) == IF session[c] # NoId THEN session[c] ELSE arg

\* booking_id = request.args.get('booking_id')
\* if not booking_id: booking_id = session.pop('pending_booking_id', None)
ResolveId(c, arg) == IF arg # NoId THEN arg ELSE session[c]

\* session.get in place of session.pop: the fallback id is never consumed.
SessionKept(c, arg) == session

SessionAfterResolve(c, arg) ==
    IF arg # NoId THEN session ELSE [session EXCEPT ![c] = NoId]

\* Reading a query parameter the gateway never sends: always the default.
PaymentReferenceWrongKey(intent) == "completed"

\* request.args.get('payment_intent', 'completed')
PaymentReference(intent) == IF intent = "none" THEN "completed" ELSE intent

\* booking.status = CONFIRMED; booking.stripe_payment_id = ...; commit
ConfirmedRow(b, intent) ==
    [b EXCEPT !.status = "confirmed", !.stripe_payment_id = PaymentReference(intent)]

\* send_booking_confirmation(booking); send_booking_notification(booking):
\* each e-mail is attempted and either goes out or fails (send_email logs
\* the failure and returns False).
MailOutcomes == {<<sentClient, sentOwner>> : sentClient \in BOOLEAN, sentOwner \in BOOLEAN}

\* A success handler that sends the e-mails before it commits, and leaves
\* the booking as it was when one of them fails.
BookingSuccessMailFirst(c, arg, intent) ==
    /\ pc[c] = "idle"
    /\ LET id == ResolveId(c, arg)
           found == RowsWithId(bookings, id)
       IN  IF id # NoId /\ found # {}
           THEN \E m \in MailOutcomes :
                   /\ response' = Resp("success", "confirmed", "not_called", m)
                   /\ bookings' = IF m = <<TRUE, TRUE>>
                                  THEN (bookings \ found) \cup
                                          {ConfirmedRow(b, intent) : b \in found}
                                  ELSE bookings
           ELSE /\ response' = Resp("success", "contact_us", "not_called", <<>>)
                /\ UNCHANGED bookings
    /\ session' = SessionAfterResolve(c, arg)
    /\ UNCHANGED <<now, utcOffset, products, nextId, pc, req, bid, checkouts>>

\* GET /booking/success
BookingSuccess(c, arg, intent) ==
    /\ pc[c] = "idle"
    /\ LET id == ResolveId(c, arg)
           found == RowsWithId(bookings, id)
       IN  IF id # NoId /\ found # {}
           THEN /\ \E m \in MailOutcomes :
                      response' = Resp("success", "confirmed", "not_called", m)
                /\ bookings' = (bookings \ found) \cup
                                  {ConfirmedRow(b, intent) : b \in found}
           ELSE /\ response' = Resp("success", "contact_us", "not_called", <<>>)
                /\ UNCHANGED bookings
    /\ session' = SessionAfterResolve(c, arg)
    /\ UNCHANGED <<now, utcOffset, products, nextId, pc, req, bid, checkouts>>

\* A cancel handler that marks the row for deletion and never commits.
BookingCancelNoCommit(c, arg) ==
    /\ pc[c] = "idle"
    /\ session' = SessionAfterResolve(c, arg)
    /\ response' = Resp("cancel", "cancelled", "not_called", <<>>)
    /\ UNCHANGED <<now, utcOffset, products, bookings, nextId, pc, req, bid,
                   checkouts>>

\* GET /booking/cancel
BookingCancel(c, arg) ==
    /\ pc[c] = "idle"
    /\ LET id == ResolveId(c, arg)
           found == RowsWithId(bookings, id)
       IN  bookings' = IF id # NoId THEN bookings \ found ELSE bookings
    /\ session' = SessionAfterResolve(c, arg)
    /\ response' = Resp("cancel", "cancelled", "not_called", <<>>)
    /\ UNCHANGED <<now, utcOffset, products, nextId, pc, req, bid,
                   checkouts>>

\* ------------------------------------------------ admin, clock
\* A delete that cascades to the product's bookings instead of refusing.
AdminDeleteProductCascade(c, product_id) ==
    /\ pc[c] = "idle"
    /\ UserOf(c) = AdminUserId
    /\ \E p \in products :
          /\ p.id = product_id
          /\ response' = Resp("admin_delete", "deleted", "not_called", <<>>)
          /\ products' = products \ {p}
          /\ bookings' = {b \in bookings : b.product_id # product_id}
    /\ UNCHANGED <<now, utcOffset, nextId, pc, req, bid, session, checkouts>>

\* A delete that never looks at the product's bookings.
AdminDeleteProductUnchecked(c, product_id) ==
    /\ pc[c] = "idle"
    /\ UserOf(c) = AdminUserId
    /\ \E p \in products :
          /\ p.id = product_id
          /\ response' = Resp("admin_delete", "deleted", "not_called", <<>>)
          /\ products' = products \ {p}
    /\ UNCHANGED <<now, utcOffset, bookings, nextId, pc, req, bid,
                   session, checkouts>>

\* POST /admin/products/<id>/delete by the logged-in admin.
AdminDeleteProduct(c, product_id) ==
    /\ pc[c] = "idle"
    /\ UserOf(c) = AdminUserId
    /\ \E p \in products :
          /\ p.id = product_id
          /\ IF \E b \in bookings : b.product_id = product_id
             THEN /\ response' = Resp("admin_delete", "has_bookings", "not_called", <<>>)
                  /\ UNCHANGED products
             ELSE /\ response' = Resp("admin_delete", "deleted", "not_called", <<>>)
                  /\ products' = products \ {p}
    /\ UNCHANGED <<now, utcOffset, bookings, nextId, pc, req, bid,
                   session, checkouts>>

\* POST /admin/products/<id>/edit by the logged-in admin, with a valid form.
AdminEditProduct(c, product_id, status, price, stripe_price_id) ==
    /\ pc[c] = "idle"
    /\ UserOf(c) = AdminUserId
    /\ \E p \in products :
          /\ p.id = product_id
          /\ products' = (products \ {p}) \cup
                 { [p EXCEPT !.status = status, !.price = price,
                             !.stripe_price_id = stripe_price_id] }
    /\ response' = Resp("admin_edit", "updated", "not_called", <<>>)
    /\ UNCHANGED <<now, utcOffset, bookings, nextId, pc, req, bid,
                   session, checkouts>>

\* The clocks advance.
Tick(t) ==
    /\ t > now
    /\ now' = t
    /\ response' = NoResponse
    /\ UNCHANGED <<utcOffset, products, bookings, nextId, pc, req, bid,
                   session, checkouts>>

\* The submitted forms: every e-mail and start for the bookable product, one
\* form for each product id that is not bookable (coming soon, absent), and
\* one form with a field that fails its own validators.
Requests ==
    [product_id : {1}, email : Emails, start : Starts, fieldsOk : {TRUE}]
        \cup [product_id : ProductIdInputs \ {1}, email : {"a@x"},
              start : {34}, fieldsOk : {TRUE}]
        \cup [product_id : {1}, email : {"a@x"}, start : {34}, fieldsOk : {FALSE}]

Next ==
    \/ \E c \in Clients, r \in Requests : Submit(c, r)
    \/ \E c \in Clients : Insert(c)
    \/ \E c \in Clients, o \in GatewayOutcomes : Checkout(c, o)
    \/ \E c \in Clients, a \in IdArgs, i \in Intents : BookingSuccess(c, a, i)
    \/ \E c \in Clients, a \in IdArgs : BookingCancel(c, a)
    \/ \E c \in Clients, p \in AdminTargets : AdminDeleteProduct(c, p)
    \/ \E t \in Instants : Tick(t)

Spec == Init /\ [][Next]_vars

\* Requests whose validation and insert are not interleaved with another
\* request's: a form is validated only when no other request stands between
\* its validation and its insert.
SubmitSerial(c, r) ==
    /\ \A q \in Clients \ {c} : pc[q] # "validated"
    /\ Submit(c, r)

NextSerial ==
    \/ \E c \in Clients, r \in Requests : SubmitSerial(c, r)
    \/ \E c \in Clients : Insert(c)
    \/ \E c \in Clients, o \in GatewayOutcomes : Checkout(c, o)
    \/ \E c \in Clients, a \in IdArgs, i \in Intents : BookingSuccess(c, a, i)
    \/ \E c \in Clients, a \in IdArgs : BookingCancel(c, a)
    \/ \E c \in Clients, p \in AdminTargets : AdminDeleteProduct(c, p)
    \/ \E t \in Instants : Tick(t)

SpecSerial == Init /\ [][NextSerial]_vars

\* The callbacks read no field of a form: under this specification the forms
\* are the bookable product's with two adjacent slots, and every operation
\* runs as under Spec.
CallbackRequests ==
    [product_id : {1}, email : Emails, start : {34, 36}, fieldsOk : {TRUE}]

NextCallbacks ==
    \/ \E c \in Clients, r \in CallbackRequests : Submit(c, r)
    \/ \E c \in Clients : Insert(c)
    \/ \E c \in Clients, o \in GatewayOutcomes : Checkout(c, o)
    \/ \E c \in Clients, a \in IdArgs, i \in Intents : BookingSuccess(c, a, i)
    \/ \E c \in Clients, a \in IdArgs : BookingCancel(c, a)
    \/ \E c \in Clients, p \in AdminTargets : AdminDeleteProduct(c, p)
    \/ \E t \in Instants : Tick(t)

SpecCallbacks == Init /\ [][NextCallbacks]_vars

\* Requests served one at a time over eight days and more: the clock reads
\* the booking day, eight days later and eight days eleven hours later (the
\* first hour after seven days from a start at 34); the forms ask for two
\* slots of the second day and one of the tenth; the callbacks arrive as the
\* gateway sends them, with the booking id and a payment_intent.
ClockInstants == {0, 192, 203}

ClockRequests ==
    [product_id : {1}, email : Emails, start : {34, 36, 227}, fieldsOk : {TRUE}]

ClockIdArgs == 1..MaxBookings

NextClock ==
    \/ \E c \in Clients, r \in ClockRequests : SubmitSerial(c, r)
    \/ \E c \in Clients : Insert(c)
    \/ \E c \in Clients, o \in {"ok", "stripe_error"} : Checkout(c, o)
    \/ \E c \in Clients, a \in ClockIdArgs : BookingSuccess(c, a, "pi_A")
    \/ \E c \in Clients, a \in ClockIdArgs : BookingCancel(c, a)
    \/ \E c \in Clients, p \in AdminTargets : AdminDeleteProduct(c, p)
    \/ \E t \in ClockInstants : Tick(t)

SpecClock == Init /\ [][NextClock]_vars

\* The catalogue changing under the booking requests: the admin switches a
\* product between ACTIVE and COMING_SOON (price and price reference as
\* seeded) or deletes it, while forms ask for each product id; the clock
\* stands still and the callbacks arrive as the gateway sends them.
CatalogRequests ==
    [product_id : ProductIdInputs, email : {"a@x"}, start : {34, 36},
     fieldsOk : {TRUE}]

CatalogStatuses == {"active", "coming_soon"}

NextCatalog ==
    \/ \E c \in Clients, r \in CatalogRequests : Submit(c, r)
    \/ \E c \in Clients : Insert(c)
    \/ \E c \in Clients, o \in {"ok", "stripe_error"} : Checkout(c, o)
    \/ \E c \in Clients, a \in ClockIdArgs : BookingSuccess(c, a, "pi_A")
    \/ \E c \in Clients, a \in ClockIdArgs : BookingCancel(c, a)
    \/ \E c \in Clients, p \in ProductIdInputs : AdminDeleteProduct(c, p)
    \/ \E c \in Clients, p \in SeedProducts, st \in CatalogStatuses :
          AdminEditProduct(c, p.id, st, p.price, p.stripe_price_id)

SpecCatalog == Init /\ [][NextCatalog]_vars

\* ------------------------------------------------ the validators alone
\* A row of the bookings table.
Row(id, email, start, end, status, created) ==
    [id |-> id, user_id |-> NoId, product_id |-> 1, email |-> email,
     start |-> start, end |-> end, status |-> status,
     stripe_payment_id |-> "null", created_at |-> created]

\* validate_start over its inputs: the server's clock reads one of four
\* local times around the booking day's start, the table is empty or holds
\* one booking of the second day made at time 0, and the candidate start
\* ranges over the hours around the second day.
ValidateNows == {0, 10}
ValidateOffsets == {-5, 0}
ValidateBooked == {30, 34, 40}
ValidateStarts == 18..44

ValidateTables ==
    {{}} \cup {{Row(1, "b@x", st, st + ServiceHours, status, 0)} :
                  st \in ValidateBooked, status \in ActiveStatuses}

InitValidate ==
    /\ now \in ValidateNows
    /\ utcOffset \in ValidateOffsets
    /\ products = SeedProducts
    /\ bookings \in ValidateTables
    /\ nextId = Cardinality(bookings) + 1
    /\ pc = [c \in Clients |-> "idle"]
    /\ req = [c \in Clients |-> NoReq]
    /\ bid = [c \in Clients |-> NoId]
    /\ session = [c \in Clients |-> NoId]
    /\ checkouts = {}
    /\ response = NoResponse

\* form.validate_start(field) on a submitted start: the field's data and
\* the reason raised, or "ok" when none is.
ValidateStartOn(c, start) ==
    /\ pc[c] = "idle"
    /\ req' = [req EXCEPT ![c] = [NoReq EXCEPT !.start = start]]
    /\ LET errs == ValidateStart(bookings, LocalNow, start)
       IN  response' = Resp("validate_start",
                            IF errs = {} THEN "ok" ELSE CHOOSE e \in errs : TRUE,
                            "not_called", <<>>)
    /\ UNCHANGED <<now, utcOffset, products, bookings, nextId, pc, bid,
                   session, checkouts>>

NextValidate == \E s \in ValidateStarts : ValidateStartOn(1, s)

SpecValidate == InitValidate /\ [][NextValidate]_vars

\* check_availability over its inputs: the table holds two active rows with
\* any two intervals over a few points, and each row in turn is checked
\* against the rest of the table (exclude_booking_id is the row's own id).
Points == 0..4

Intervals == {<<lo, hi>> \in Points \X Points : lo < hi}

AvailabilityTables ==
    { {Row(1, "a@x", i[1], i[2], si, 0), Row(2, "b@x", j[1], j[2], sj, 0)} :
         <<i, j>> \in Intervals \X Intervals,
         <<si, sj>> \in ActiveStatuses \X ActiveStatuses }

InitAvailability ==
    /\ now = 0
    /\ utcOffset = 0
    /\ products = SeedProducts
    /\ bookings \in AvailabilityTables
    /\ nextId = Cardinality(bookings) + 1
    /\ pc = [c \in Clients |-> "idle"]
    /\ req = [c \in Clients |-> NoReq]
    /\ bid = [c \in Clients |-> NoId]
    /\ session = [c \in Clients |-> NoId]
    /\ checkouts = {}
    /\ response = NoResponse

\* Booking.check_availability(b.start, b.end, exclude_booking_id=b.id)
RecheckAvailability(id) ==
    /\ \E b \in RowsWithId(bookings, id) :
          response' = Resp("check_availability",
                           IF CheckAvailability(bookings, b.start, b.end, b.id)
                           THEN "available" ELSE "unavailable",
                           "not_called", <<>>)
    /\ UNCHANGED <<now, utcOffset, products, bookings, nextId, pc, req, bid,
                   session, checkouts>>

NextAvailability == \E id \in 1..MaxBookings : RecheckAvailability(id)

SpecAvailability == InitAvailability /\ [][NextAvailability]_vars

\* ------------------------------------------------ the checkout's line item
\* Prices in cents (Product.price is Numeric(10, 2)) and the stored Stripe
\* price references a product can have when its checkout is created.
PriceCents == (1..600) \cup {1999, 7500, 29900}

PriceIds == {"", "price_1"}

PriceRequests ==
    [product_id : {1}, email : {"a@x"}, start : {34, 36}, fieldsOk : {TRUE}]

\* The catalog holds one ACTIVE product with any of the prices, with or
\* without a stored price reference; the bookings table is empty.
InitPrice ==
    /\ now = 0
    /\ utcOffset \in UtcOffsets
    /\ \E cents \in PriceCents, sid \in PriceIds :
          products = { [id |-> 1, status |-> "active", price |-> cents,
                        stripe_price_id |-> sid] }
    /\ bookings = {}
    /\ nextId = 1
    /\ pc = [c \in Clients |-> "idle"]
    /\ req = [c \in Clients |-> NoReq]
    /\ bid = [c \in Clients |-> NoId]
    /\ session = [c \in Clients |-> NoId]
    /\ checkouts = {}
    /\ response = NoResponse

NextPrice ==
    \/ \E r \in PriceRequests : Submit(2, r)
    \/ Insert(2)
    \/ \E o \in {"ok", "stripe_error"} : Checkout(2, o)
    \/ \E a \in ClockIdArgs : BookingCancel(2, a)

SpecPrice == InitPrice /\ [][NextPrice]_vars

\* ------------------------------------------------ rejections and their cause
\* The booking form's validation as Submit models it, with the answer to a
\* rejected request carrying what the re-rendered form shows: the submitted
\* values and the validation errors.
SubmitReporting(c, r) ==
    /\ pc[c] = "idle"
    /\ LET errs == FormErrors(bookings, products, now, LocalNow, r)
       IN  IF errs = {}
           THEN /\ pc' = [pc EXCEPT ![c] = "validated"]
                /\ req' = [req EXCEPT ![c] = r]
                /\ response' = NoResponse
           ELSE /\ response' = [op |-> "booking", msg |-> "form_errors",
                                gateway |-> "not_called", mailed |-> <<>>,
                                form |-> r, errors |-> errs]
                /\ UNCHANGED <<pc, req>>
    /\ UNCHANGED <<now, utcOffset, products, bookings, nextId, bid,
                   session, checkouts>>

RaceRequests ==
    [product_id : {1}, email : Emails, start : {34, 35, 42}, fieldsOk : {TRUE}]

NextRace ==
    \/ \E c \in Clients, r \in RaceRequests : SubmitReporting(c, r)
    \/ \E c \in Clients : Insert(c)
    \/ \E c \in Clients, o \in {"ok", "stripe_error"} : Checkout(c, o)
    \/ \E c \in Clients, a \in ClockIdArgs : BookingSuccess(c, a, "pi_A")
    \/ \E c \in Clients, a \in ClockIdArgs : BookingCancel(c, a)

SpecRace == Init /\ [][NextRace]_vars

\* ================================================================ claims
Active(b) == b.status \in ActiveStatuses

\* Half-open intervals [start, end) that intersect.
Intersect(a, b) == a.start < b.end /\ b.start < a.end

\* C1: when no request runs between another request's validation and its
\* insert, no two distinct bookings with status PENDING or CONFIRMED have
\* intersecting [start, end) intervals.
C1_NoActiveOverlap ==
    \A a \in bookings, b \in bookings :
        (a.id # b.id /\ Active(a) /\ Active(b)) => ~ Intersect(a, b)

\* Two active bookings stand side by side, one confirmed and one pending.
C1_Witness ==
    \E a \in bookings, b \in bookings :
        /\ a.id # b.id
        /\ a.status = "confirmed"
        /\ b.status = "pending"
        /\ a.end = b.start

\* C2: a request that passed validation inserts its PENDING row without
\* looking at the table again and without reporting anything, so two requests
\* that both validated against the same free slot both insert; two
\* overlapping PENDING, and then CONFIRMED, bookings are reachable.
C2_RacingInsertUndetected ==
    [][\A c \in Clients :
          ( /\ pc[c] = "validated"
            /\ pc'[c] # "validated"
            /\ \E p \in products : p.id = req[c].product_id )
          => ( /\ pc'[c] = "inserted"
               /\ response' = NoResponse
               /\ \E b \in bookings' \ bookings :
                     /\ b.id = bid'[c]
                     /\ b.start = req[c].start
                     /\ b.email = req[c].email
                     /\ b.status = "pending" )]_vars

\* Two overlapping bookings, both confirmed, both with a created checkout.
C2_Witness ==
    \E a \in bookings, b \in bookings :
        /\ a.id # b.id
        /\ Intersect(a, b)
        /\ a.status = "confirmed"
        /\ b.status = "confirmed"
        /\ \A x \in {a, b} : \E k \in checkouts : k.booking_id = x.id

\* C3: over the steps of one booking request whose checkout cannot be
\* created, the table is left as the request found it: validation changes
\* nothing, the insert adds exactly the request's new row, and the failure
\* branch removes exactly that row; the caller gets the payment-unavailable
\* message and the session keeps whatever it held, which is not this id.
C3_CompensatingDelete ==
    [][\A c \in Clients :
          /\ (pc[c] = "idle" /\ pc'[c] = "validated") => bookings' = bookings
          /\ (pc[c] = "validated" /\ pc'[c] = "inserted")
                => /\ RowsWithId(bookings, bid'[c]) = {}
                   /\ bookings \subseteq bookings'
                   /\ \A b \in bookings' \ bookings : b.id = bid'[c]
          /\ (pc[c] = "inserted" /\ pc'[c] = "idle" /\ checkouts' = checkouts)
                => /\ RowsWithId(bookings', bid[c]) = {}
                   /\ bookings' = {b \in bookings : b.id # bid[c]}
                   /\ response'.msg = "payment_unavailable"
                   /\ session' = session
                   /\ session'[c] # bid[c] ]_vars

\* A request has failed at the gateway and its row is gone again.
C3_Witness ==
    /\ response.msg = "payment_unavailable"
    /\ response.gateway = "failed"
    /\ nextId = 2
    /\ bookings = {}

\* C4: no cancel callback deletes a CONFIRMED booking, whether its id came
\* from the request parameter or from the session fallback.
C4_CancelKeepsConfirmed ==
    [][response'.op = "cancel" =>
       \A c \in Clients, a \in IdArgs :
          \A b \in RowsWithId(bookings, ResolveId(c, a)) :
             ( /\ b.status = "confirmed"
               /\ BookingCancel(c, a) )
             => b \in bookings']_vars

\* C5: every CONFIRMED booking has a successfully created checkout.
C5_ConfirmedHasCheckout ==
    \A b \in bookings :
        b.status = "confirmed" => \E k \in checkouts : k.booking_id = b.id

\* C6: a success callback for an already CONFIRMED booking leaves its status
\* and payment reference as they are and sends no notification.
C6_SuccessIdempotent ==
    [][response'.op = "success" =>
       \A c \in Clients, a \in IdArgs, i \in Intents :
          \A b \in RowsWithId(bookings, ResolveId(c, a)) :
             ( /\ b.status = "confirmed"
               /\ BookingSuccess(c, a, i) )
             => (b \in bookings' /\ response'.mailed = <<>>)]_vars

\* C7: a booking request answered with form errors or with the
\* invalid-selection message leaves the booking table, the sessions and the
\* gateway's checkouts unchanged and does not call the gateway.
C7_RejectedMutatesNothing ==
    [][response'.msg \in {"form_errors", "invalid_service"}
          => /\ bookings' = bookings
             /\ session' = session
             /\ checkouts' = checkouts
             /\ nextId' = nextId
             /\ response'.gateway = "not_called"]_vars

\* A request was rejected while another booking holds its slot.
C7_Witness ==
    /\ response.msg = "form_errors"
    /\ \E b \in bookings : b.status = "pending"

C10_SuccessConfirms ==
    [][response'.op = "success" =>
       \A c \in Clients, a \in IdArgs, i \in Intents :
          \A b \in RowsWithId(bookings, ResolveId(c, a)) :
             BookingSuccess(c, a, i)
             => /\ \E b2 \in bookings' :
                      /\ b2.id = b.id
                      /\ b2.status = "confirmed"
                      /\ b2.stripe_payment_id =
                             (IF i = "none" THEN "completed" ELSE i)
                /\ response'.msg = "confirmed"
                /\ Len(response'.mailed) = 2]_vars

\* A booking confirmed with the gateway's token, both e-mails delivered.
C10_Witness ==
    /\ response.msg = "confirmed"
    /\ response.mailed = <<TRUE, TRUE>>
    /\ \E b \in bookings :
          b.status = "confirmed" /\ b.stripe_payment_id = "pi_A"

\* C11: when a cancel callback removes a booking that alone stood in the way
\* of its own start and e-mail, the availability check for that slot and
\* the rate-limit check for that e-mail both pass on the table the callback
\* leaves behind.
C11_CancelFreesSlotAndWindow ==
    [][response'.op = "cancel" =>
       \A c \in Clients, a \in IdArgs :
          \A b \in {x \in bookings : x.id = (IF a # NoId THEN a ELSE session[c])} :
             ( /\ BookingCancel(c, a)
               /\ CheckAvailability(bookings \ {b}, b.start, b.end, NoId)
               /\ ValidateEmail(bookings \ {b}, now, b.email) = {} )
             => /\ b \notin bookings'
                /\ CheckAvailability(bookings', b.start, b.end, NoId)
                /\ ValidateEmail(bookings', now', b.email) = {}]_vars

\* A booking that had reached its checkout was cancelled; the table is empty.
C11_Witness ==
    /\ response.op = "cancel"
    /\ bookings = {}
    /\ \E k \in checkouts : k.booking_id = 1

\* C12: a cancel callback whose id names no row, or that has no id at all,
\* leaves the booking table as it is and answers like any other cancel.
C12_CancelAgainIsNoOp ==
    [][response'.op = "cancel" =>
       \A c \in Clients, a \in IdArgs :
          ( /\ {x \in bookings : x.id = (IF a # NoId THEN a ELSE session[c])} = {}
            /\ BookingCancel(c, a) )
          => /\ bookings' = bookings
             /\ response' = Resp("cancel", "cancelled", "not_called", <<>>)
             /\ UNCHANGED <<products, checkouts, nextId>>]_vars

\* A cancel answered while another booking is in the table and the session
\* holds no id: the callback named a deleted row or no row.
C12_Witness ==
    /\ response.op = "cancel"
    /\ nextId = 3
    /\ Cardinality(bookings) = 1
    /\ \A c \in Clients : session[c] = NoId

\* The active bookings of an e-mail.
ActiveOf(email) == {b \in bookings : Active(b) /\ b.email = email}

\* C13: with requests served one at a time, two distinct active bookings of
\* one e-mail have starts more than seven days apart.
C13_OnePerWindow ==
    \A a \in bookings, b \in bookings :
        (a.id # b.id /\ Active(a) /\ Active(b) /\ a.email = b.email /\ a.start <= b.start)
        => b.start - a.start > RateLimitDays * HoursPerDay

\* One e-mail holds two paid bookings, of the second day and of the tenth.
C13_Witness ==
    \E a \in bookings, b \in bookings :
        /\ a.email = b.email
        /\ a.status = "confirmed" /\ b.status = "confirmed"
        /\ a.start = 34 /\ b.start = 227

\* C14: a request whose e-mail has active bookings, all made eight days ago
\* or earlier, and whose form is otherwise valid, passes validation.
C14_EightDaysAfterMakingPasses ==
    [][\A c \in Clients, r \in ClockRequests :
          ( /\ Submit(c, r)
            /\ ActiveOf(r.email) # {}
            /\ \A b \in ActiveOf(r.email) : now >= b.created_at + 8 * HoursPerDay
            /\ ValidateProduct(products, r.product_id) = {}
            /\ ValidateStart(bookings, LocalNow, r.start) = {} )
          => pc'[c] = "validated"]_vars

\* C15: a request checked at a clock reading t with T <= t < T + 7 days,
\* T the start of an active booking of its e-mail, is rejected by the rate
\* limit; checked one clock unit after T + 7 days or later, for every
\* active booking of its e-mail, it is not.
C15_RateLimitWindow ==
    [][(response'.msg = "form_errors" \/ pc' # pc) =>
       \A c \in Clients, r \in ClockRequests :
          Submit(c, r)
          => /\ (\E b \in ActiveOf(r.email) :
                    b.start <= now /\ now < b.start + RateLimitDays * HoursPerDay)
                => /\ response'.msg = "form_errors"
                   /\ ValidateEmail(bookings, now, r.email) = {"rate_limit"}
             /\ ( /\ ActiveOf(r.email) # {}
                  /\ \A b \in ActiveOf(r.email) :
                        now >= b.start + RateLimitDays * HoursPerDay + 1 )
                => /\ ValidateEmail(bookings, now, r.email) = {}
                   /\ (ValidateStart(bookings, LocalNow, r.start) = {}
                          => pc'[c] = "validated")]_vars

\* In the first hour after the seven days the e-mail has booked again.
C15_Witness ==
    /\ now = 203
    /\ \E a \in bookings, b \in bookings :
          /\ a.email = b.email
          /\ Active(a) /\ a.start = 34
          /\ b.status = "pending" /\ b.created_at = 203

\* The start validate_start was last called on.
Candidate == req[1].start

\* C16: every start earlier than now + 24 hours on the server's clock is
\* rejected with the lead-time reason, whatever its hour and whatever the
\* table holds; a start equal to now + 24 hours is not rejected for lead time.
C16_LeadTimeFirst ==
    response.op = "validate_start"
    => /\ (Candidate < LocalNow + LeadHours => response.msg = "too_soon")
       /\ (Candidate = LocalNow + LeadHours => response.msg # "too_soon")

\* A start that is too soon and is also the start of an existing booking.
C16_Witness ==
    /\ response.msg = "too_soon"
    /\ \E b \in bookings : b.start = Candidate /\ Active(b)

\* C17: a start that satisfies the lead time is accepted when its hour is in
\* [5, 18) and no active booking intersects [start, start + 2h), and is
\* rejected for business hours when its hour is outside [5, 18).
C17_HoursThenOverlap ==
    (response.op = "validate_start" /\ Candidate >= LocalNow + LeadHours)
    => /\ ( /\ HourOf(Candidate) >= OpenHour
            /\ HourOf(Candidate) < CloseHour
            /\ \A b \in bookings :
                  Active(b) => ~ (b.start < Candidate + ServiceHours /\ Candidate < b.end) )
          => response.msg = "ok"
       /\ (HourOf(Candidate) < OpenHour \/ HourOf(Candidate) >= CloseHour)
          => response.msg = "outside_hours"

\* A start at 17:00, whose service ends at 19:00, is accepted.
C17_Witness ==
    /\ response.msg = "ok"
    /\ HourOf(Candidate) = CloseHour - 1
    /\ bookings # {}

\* C18: a row checked against another active row is reported unavailable
\* exactly when the two half-open intervals intersect; the answer is the
\* same with the two rows' roles exchanged, and rows that only touch are
\* reported available.
C18_OverlapIsIntersection ==
    [][\A id \in 1..MaxBookings :
          RecheckAvailability(id)
          => \A a \in RowsWithId(bookings, id), b \in bookings \ RowsWithId(bookings, id) :
                /\ (response'.msg = "unavailable") <=> (b.start < a.end /\ a.start < b.end)
                /\ CheckAvailability({b}, a.start, a.end, NoId)
                      = CheckAvailability({a}, b.start, b.end, NoId)
                /\ (a.end = b.start \/ b.end = a.start) => response'.msg = "available"]_vars

\* Two rows that touch were checked and reported available.
C18_Witness ==
    /\ response.op = "check_availability"
    /\ response.msg = "available"
    /\ \E a \in bookings, b \in bookings : a.end = b.start

\* C19: a booking request whose product id names no product, or a product
\* that is not ACTIVE, when the form is validated or when the handler
\* resolves the product, creates no booking, calls no gateway and ends.
C19_InactiveProductNeverBooked ==
    [][\A c \in Clients :
          /\ \A r \in CatalogRequests :
                (r.product_id \notin ProductChoices(products) /\ Submit(c, r))
                => /\ response'.msg = "form_errors"
                   /\ UNCHANGED <<bookings, checkouts, nextId, pc>>
          /\ ( /\ pc[c] = "validated"
               /\ pc'[c] # "validated"
               /\ req[c].product_id \notin ProductChoices(products) )
             => /\ pc'[c] = "idle"
                /\ response'.gateway = "not_called"
                /\ UNCHANGED <<bookings, checkouts, nextId>>]_vars

\* C20: the insert of an accepted request adds exactly one row, PENDING,
\* without payment reference, with the logged-in user's id when there is
\* one; when the checkout is created the request answers with the gateway's
\* redirect, stores the row's id in its session and leaves the table as it is.
C20_AcceptedRequestReserves ==
    [][\A c \in Clients :
          /\ (pc[c] = "validated" /\ pc'[c] = "inserted")
             => \E b \in bookings' :
                   /\ bookings' = bookings \cup {b}
                   /\ RowsWithId(bookings, b.id) = {}
                   /\ b.id = bid'[c]
                   /\ b.status = "pending"
                   /\ b.stripe_payment_id = "null"
                   /\ b.user_id = (IF c = 1 THEN AdminUserId ELSE NoId)
                   /\ b.email = req[c].email
                   /\ b.start = req[c].start
                   /\ b.end = req[c].start + ServiceHours
          /\ (pc[c] = "inserted" /\ pc'[c] = "idle" /\ checkouts' # checkouts)
             => /\ response' = Resp("booking", "redirect_checkout", "created", <<>>)
                /\ session'[c] = bid[c]
                /\ bookings' = bookings
                /\ \E k \in checkouts' \ checkouts : k.booking_id = bid[c]]_vars

\* The logged-in client was sent to the checkout: its session names its
\* PENDING booking, which carries its user id.
C20_Witness ==
    /\ response.msg = "redirect_checkout"
    /\ \E b \in bookings :
          /\ b.id = session[1]
          /\ b.user_id = AdminUserId
          /\ b.status = "pending"
          /\ b.stripe_payment_id = "null"
          /\ \E k \in checkouts : k.booking_id = b.id

\* C21: every booking ends two hours after it starts, and no step (success,
\* cancel, compensating delete or any other) changes the start or the end
\* of a booking that stays in the table.
C21_EndIsStartPlusTwoHours ==
    [][/\ \A b \in bookings' : b.end = b.start + ServiceHours
       /\ \A b \in bookings, b2 \in bookings' :
             b2.id = b.id => (b2.start = b.start /\ b2.end = b.end)]_vars

\* A confirmed booking of two hours, after a later request's row was taken
\* out again by its compensating delete.
C21_Witness ==
    /\ response.msg = "payment_unavailable"
    /\ nextId = 3
    /\ \E b \in bookings :
          /\ b.status = "confirmed"
          /\ b.end = b.start + 2

\* C22: a success callback that finds its booking leaves it CONFIRMED with
\* a payment reference whether each of the two e-mails went out or failed,
\* and leaves every booking that was CONFIRMED before it CONFIRMED.
C22_MailFailureKeepsConfirmed ==
    [][(response'.op = "success" /\ response'.msg = "confirmed")
       => /\ response'.mailed \in MailOutcomes
          /\ \E b \in bookings, i \in Intents :
                /\ bookings' = (bookings \ {b}) \cup
                      { [b EXCEPT !.status = "confirmed",
                                  !.stripe_payment_id =
                                      IF i = "none" THEN "completed" ELSE i] }
          /\ \A b \in bookings :
                b.status = "confirmed"
                => \E b2 \in bookings' :
                      b2.id = b.id /\ b2.status = "confirmed"]_vars

\* Both e-mails failed and the booking is CONFIRMED with the gateway's token.
C22_Witness ==
    /\ response.msg = "confirmed"
    /\ response.mailed = <<FALSE, FALSE>>
    /\ \E b \in bookings :
          /\ b.status = "confirmed"
          /\ b.stripe_payment_id = "pi_A"

\* C23: with product deletions that run as one step, every booking's product
\* reference resolves to an existing product; a deletion is refused exactly
\* when some booking references the product, and goes through once none does.
C23_ReferencedProductStays ==
    [][/\ \A b \in bookings' : \E p \in products' : p.id = b.product_id
       /\ response'.op = "admin_delete"
          => \A c \in Clients, t \in AdminTargets :
                AdminDeleteProduct(c, t)
                => IF \E b \in bookings : b.product_id = t
                   THEN /\ response'.msg = "has_bookings"
                        /\ products' = products
                   ELSE /\ response'.msg = "deleted"
                        /\ \A p \in products' : p.id # t]_vars

\* The product was booked, its bookings were deleted, then it was deleted.
C23_Witness ==
    /\ response.op = "admin_delete"
    /\ response.msg = "deleted"
    /\ nextId > 1
    /\ bookings = {}
    /\ \A p \in products : p.id # 1

\* C24: a checkout for a product without stored price reference carries
\* currency 'usd' and the product's price in cents as its unit amount; a
\* checkout for a product with a stored price reference carries that
\* reference and no unit amount.
C24_UnitAmountIsPriceInCents ==
    \A k \in checkouts, p \in products :
       IF p.stripe_price_id = ""
       THEN /\ k.line_item.kind = "price_data"
            /\ k.line_item.currency = "usd"
            /\ k.line_item.unit_amount = p.price
       ELSE /\ k.line_item.kind = "price"
            /\ k.line_item.price = p.stripe_price_id
            /\ k.line_item.unit_amount = 0

\* C25: a callback that finds the booking of its id, taken from the request
\* parameter or from the session, leaves the session without that id.
C25_ResolvedIdLeavesSession ==
    [][(response'.op \in {"success", "cancel"})
       => \A c \in Clients, a \in IdArgs :
             ( /\ RowsWithId(bookings, ResolveId(c, a)) # {}
               /\ \/ BookingCancel(c, a)
                  \/ \E i \in Intents : BookingSuccess(c, a, i) )
             => session'[c] # ResolveId(c, a)]_vars

\* C26: a request rejected for slot overlap or rate limit stays blocked by
\* the table when a compensating delete is the next step: the row that
\* delete removes was not what the rejection rested on.
C26_RejectedOnlyByLastingRow ==
    [][(response.msg = "form_errors" /\ response'.msg = "payment_unavailable")
       => ( response.errors \cap {"slot_taken", "rate_limit"} # {}
            => FormErrors(bookings', products', now', LocalNow',
                          response.form) \cap {"slot_taken", "rate_limit"}
                  # {} )]_vars

====
